---------------------------- MODULE Spec2Model ----------------------------
(***************************************************************************)
(* Model of src/main.py: the execute_mysql tool, execute_query,            *)
(* get_connection / load_env_vars and format_query_result.                 *)
(*                                                                         *)
(* Text is a sequence of one-character strings, so len(), slicing, rfind() *)
(* and concatenation are the sequence operations.  Every non-ASCII code    *)
(* point of the program's literals is written "~": Python counts it as one *)
(* character and it is neither a brace, a quote nor a backslash.           *)
(***************************************************************************)
EXTENDS Integers, Sequences, FiniteSets, TLC

VARIABLES
    f_pc,           \* format_query_result alone: "call" before, "returned" after
    f_query,        \* its argument query
    f_results,      \* its argument results
    f_max_length,   \* its argument max_length
    f_return,       \* what it returned: [raised, text]
    environ,        \* os.environ after load_dotenv: a function on the variables that are set
    callers,        \* the threads on which the transport invokes the tool
    database,       \* the tables of the server: a query selects one of them
    req,            \* per thread: the request [query, max_rows]
    pc,             \* per thread: the call in progress
    conn,           \* per thread: local conn of execute_query (0 is None)
    cursor,         \* per thread: local cursor of execute_query (0 is None)
    results,        \* per thread: local results of execute_query
    more_rows_exist,\* per thread: local more_rows_exist of execute_query
    exc,            \* per thread: the exception in flight, [raised, type, msg]
    response,       \* per thread: the payloads execute_mysql returned
    escaped,        \* per thread: an exception left execute_mysql
    calls,          \* per thread: the driver calls made, in order, [op, ok, id]
    server          \* the database server: per connection id its connection and cursor

vars == <<f_pc, f_query, f_results, f_max_length, f_return, environ, database, callers, req, pc,
          conn, cursor, results, more_rows_exist, exc, response, escaped, calls, server>>

fmt_vars == <<f_pc, f_query, f_results, f_max_length, f_return>>

sys_vars == <<environ, database, callers, req, pc, conn, cursor, results, more_rows_exist, exc,
              response, escaped, calls, server>>

(***************************************************************************)
(* Bounds of the model.                                                    *)
(***************************************************************************)
MaxCap == 3          \* max_rows ranges over 0..MaxCap
MaxResult == 4       \* the true result of a query has 0..MaxResult rows
MaxFmtRows == 2      \* format_query_result is applied to 0..MaxFmtRows rows

(***************************************************************************)
(* Program constants.                                                      *)
(***************************************************************************)
DEFAULT_MAX_LENGTH == 10000
MARKER_HEADROOM == 100

(***************************************************************************)
(* Python's str operations.                                                *)
(***************************************************************************)
Rep(c, n) == [i \in 1..n |-> c]

Max(S) == CHOOSE m \in S : \A k \in S : k <= m

\* s[:n], also for n < 0 (counted from the end) and n > len(s)
PySliceTo(s, n) ==
    IF n >= 0
    THEN SubSeq(s, 1, IF n < Len(s) THEN n ELSE Len(s))
    ELSE SubSeq(s, 1, Len(s) + n)

\* s.rfind(c): the 0-based index of the last c in s, or -1
PyRfind(s, c) ==
    LET hits == {i \in 1..Len(s) : s[i] = c}
    IN IF hits = {} THEN -1 ELSE Max(hits) - 1

StartsWith(s, t) == Len(s) >= Len(t) /\ SubSeq(s, 1, Len(t)) = t

RECURSIVE Digits(_)
\* str(n) for n >= 0
Digits(n) ==
    LET d == <<"0", "1", "2", "3", "4", "5", "6", "7", "8", "9">>
    IN IF n < 10 THEN <<d[n + 1]>> ELSE Digits(n \div 10) \o <<d[(n % 10) + 1]>>

RECURSIVE Join(_, _)
\* sep.join(parts)
Join(parts, sep) ==
    IF parts = <<>> THEN <<>>
    ELSE IF Len(parts) = 1 THEN parts[1]
    ELSE parts[1] \o sep \o Join(Tail(parts), sep)

Whitespace == {" ", "\t", "\n", "\r"}

\* s.strip()
Strip(s) ==
    LET keep == {i \in 1..Len(s) : s[i] \notin Whitespace}
    IN IF keep = {} THEN <<>>
       ELSE SubSeq(s, CHOOSE i \in keep : \A j \in keep : i <= j, Max(keep))

LowerLetters == <<"a","b","c","d","e","f","g","h","i","j","k","l","m",
                  "n","o","p","q","r","s","t","u","v","w","x","y","z">>
UpperLetters == <<"A","B","C","D","E","F","G","H","I","J","K","L","M",
                  "N","O","P","Q","R","S","T","U","V","W","X","Y","Z">>

UpperChar(c) ==
    IF \E i \in 1..26 : LowerLetters[i] = c
    THEN UpperLetters[CHOOSE i \in 1..26 : LowerLetters[i] = c]
    ELSE c

\* s.upper()
Upper(s) == [i \in 1..Len(s) |-> UpperChar(s[i])]

(***************************************************************************)
(* Rows.  A row is a dict: here a sequence of [k, v] items in column order *)
(* with distinct keys.  A value is a str, an int, None, bytes (valid or    *)
(* invalid UTF-8) or a value json cannot serialise (Decimal, datetime).    *)
(***************************************************************************)
StrV(s) == [t |-> "str", s |-> s, n |-> 0]
IntV(n) == [t |-> "int", s |-> <<>>, n |-> n]
NullV == [t |-> "null", s |-> <<>>, n |-> 0]
BytesV(s) == [t |-> "bytes", s |-> s, n |-> 0]
BadBytesV == [t |-> "badbytes", s |-> <<>>, n |-> 0]
DecimalV == [t |-> "decimal", s |-> <<>>, n |-> 0]

Item(k, v) == [k |-> k, v |-> v]

MESSAGE_KEY == <<"m", "e", "s", "s", "a", "g", "e">>

ROW_LIMIT_MESSAGE ==
    <<"(">> \o Rep("~", 19) \o <<"m", "a", "x", "_", "r", "o", "w", "s", " ">>
    \o Rep("~", 14) \o <<")">>

CHAR_LIMIT_MESSAGE == <<"(">> \o Rep("~", 43) \o <<")">>

\* the dict appended at main.py 225-227 and 155-157
RowLimitMarker == <<Item(MESSAGE_KEY, StrV(ROW_LIMIT_MESSAGE))>>

HasKey(row, key) == \E i \in 1..Len(row) : row[i].k = key

\* "message" in row and len(row) == 1
IsMessageRow(row) == HasKey(row, MESSAGE_KEY) /\ Len(row) = 1

(***************************************************************************)
(* json.dumps(obj, ensure_ascii=False, indent=2)                           *)
(***************************************************************************)
EscapeChar(c) ==
    CASE c = "\"" -> <<"\\", "\"">>
      [] c = "\\" -> <<"\\", "\\">>
      [] c = "\n" -> <<"\\", "n">>
      [] c = "\t" -> <<"\\", "t">>
      [] c = "\r" -> <<"\\", "r">>
      [] OTHER -> <<c>>

RECURSIVE Escape(_)
Escape(s) == IF s = <<>> THEN <<>> ELSE EscapeChar(Head(s)) \o Escape(Tail(s))

\* a long run of one ordinary character needs no escaping
JsonString(s) ==
    <<"\"">> \o (IF \A i \in 1..Len(s) : EscapeChar(s[i]) = <<s[i]>> THEN s ELSE Escape(s))
    \o <<"\"">>

Serialisable(v) == v.t \in {"str", "int", "null"}

JsonValue(v) ==
    CASE v.t = "str" -> JsonString(v.s)
      [] v.t = "int" -> Digits(v.n)
      [] OTHER -> <<"n", "u", "l", "l">>

JsonItem(it) == Rep(" ", 4) \o JsonString(it.k) \o <<":", " ">> \o JsonValue(it.v)

\* one dict at nesting level 1
JsonObject(row) ==
    IF row = <<>> THEN <<"{", "}">>
    ELSE <<"{", "\n">>
         \o Join([i \in 1..Len(row) |-> JsonItem(row[i])], <<",", "\n">>)
         \o <<"\n", " ", " ", "}">>

\* a list of dicts
JsonDumps(rows) ==
    IF rows = <<>> THEN <<"[", "]">>
    ELSE <<"[", "\n">>
         \o Join([i \in 1..Len(rows) |-> <<" ", " ">> \o JsonObject(rows[i])], <<",", "\n">>)
         \o <<"\n", "]">>

(***************************************************************************)
(* format_query_result                                                     *)
(***************************************************************************)
PREFIX_LABEL == Rep("~", 8) \o <<":", " ">>
NO_DATA_TEXT == <<"~", "~", ":", " ">> \o Rep("~", 17)
COUNT_HEAD == <<"\n", "\n", "~", "~", " ">>
COUNT_TAIL == <<" ">> \o Rep("~", 14)
DISPLAY_ERROR_HEAD == <<"<">> \o Rep("~", 5) \o <<":", " ">>
DECODE_ERROR_TEXT == <<"U", "n", "i", "c", "o", "d", "e", "D", "e", "c", "o", "d", "e",
                       "E", "r", "r", "o", "r">>

\* the text spliced in at main.py 179
CHAR_LIMIT_TAIL ==
    <<",", "\n", " ", " ", "{", "\n">> \o Rep(" ", 4)
    \o <<"\"">> \o MESSAGE_KEY \o <<"\"", ":", " ", "\"">> \o CHAR_LIMIT_MESSAGE
    \o <<"\"", "\n", " ", " ", "}", "\n", "]">>

output_prefix(query) == PREFIX_LABEL \o query \o <<"\n", "\n">>

\* the index (1-based) of the row the loop at 127-132 pops, 0 if none
MarkerIndex(rows) ==
    LET hits == {i \in 1..Len(rows) : IsMessageRow(rows[i])}
    IN IF hits = {} THEN 0 ELSE CHOOSE i \in hits : \A j \in hits : i <= j

\* the local more_rows_exist of format_query_result
fmt_more_rows_exist(rows) == MarkerIndex(rows) # 0

data_results(rows) ==
    LET i == MarkerIndex(rows)
    IN IF i = 0 THEN rows
       ELSE SubSeq(rows, 1, i - 1) \o SubSeq(rows, i + 1, Len(rows))

\* lines 142-150: bytes are decoded, a failed decode becomes a placeholder
Record(row) ==
    [i \in 1..Len(row) |->
        IF row[i].v.t = "bytes" THEN Item(row[i].k, StrV(row[i].v.s))
        ELSE IF row[i].v.t = "badbytes"
        THEN Item(row[i].k, StrV(DISPLAY_ERROR_HEAD \o DECODE_ERROR_TEXT \o <<">">>))
        ELSE row[i]]

json_results(rows) ==
    LET recs == [i \in 1..Len(data_results(rows)) |-> Record(data_results(rows)[i])]
    IN IF fmt_more_rows_exist(rows) THEN Append(recs, RowLimitMarker) ELSE recs

\* json.dumps raises TypeError on a value it cannot serialise
DumpsRaises(rows) ==
    \E i \in 1..Len(data_results(rows)) :
        \E j \in 1..Len(data_results(rows)[i]) :
            ~Serialisable(Record(data_results(rows)[i])[j].v)

result_str(rows) == JsonDumps(json_results(rows))

count_info(rows) == COUNT_HEAD \o Digits(Len(data_results(rows))) \o COUNT_TAIL

complete_output(query, rows) ==
    output_prefix(query) \o result_str(rows) \o count_info(rows)

available_space(query, rows, max_length) ==
    max_length - Len(output_prefix(query)) - Len(count_info(rows)) - MARKER_HEADROOM

\* truncated_result after lines 171-176, before the marker is added
kept_fragment(query, rows, max_length) ==
    LET cut == PySliceTo(result_str(rows), available_space(query, rows, max_length))
        last_bracket == PyRfind(cut, "}")
    IN IF last_bracket # -1 THEN PySliceTo(cut, last_bracket + 1) ELSE cut

truncated_result(query, rows, max_length) ==
    kept_fragment(query, rows, max_length) \o CHAR_LIMIT_TAIL

NoData(rows) == data_results(rows) = <<>>

\* len(complete_output) > max_length, reached only past the returns before it
TruncationBranch(query, rows, max_length) ==
    /\ ~NoData(rows)
    /\ ~DumpsRaises(rows)
    /\ Len(complete_output(query, rows)) > max_length

\* the returned text, or raised = TRUE when json.dumps raises
format_query_result(query, rows, max_length) ==
    IF NoData(rows)
    THEN [raised |-> FALSE, text |-> output_prefix(query) \o NO_DATA_TEXT]
    ELSE IF DumpsRaises(rows)
    THEN [raised |-> TRUE, text |-> <<>>]
    ELSE IF Len(complete_output(query, rows)) > max_length
    THEN [raised |-> FALSE,
          text |-> output_prefix(query) \o truncated_result(query, rows, max_length)
                   \o count_info(rows)]
    ELSE [raised |-> FALSE, text |-> complete_output(query, rows)]

(***************************************************************************)
(* format_query_result on its own: the arguments are drawn in FmtInit and  *)
(* FormatCall applies the function.                                        *)
(***************************************************************************)
KeyA == <<"a">>
KeyId == <<"i", "d">>

FmtRows ==
    { <<Item(KeyId, IntV(7))>>,
      <<Item(KeyA, StrV(Rep("x", 40)))>>,
      <<Item(KeyA, StrV(<<"x", "}", "\"">> \o Rep("y", 30)))>>,
      <<Item(KeyId, IntV(12)), Item(KeyA, NullV)>>,
      <<Item(MESSAGE_KEY, StrV(<<"h", "i">>))>>,
      <<Item(KeyA, BadBytesV), Item(KeyId, BytesV(<<"o", "k">>))>>,
      RowLimitMarker }

FmtResults == UNION {[1..n -> FmtRows] : n \in 0..MaxFmtRows}

FmtQueries == {<<"q">>, Rep("q", 150)}

FmtMaxLengths == {150, 190, 215, 240, 400}

NoReturn == [raised |-> FALSE, text |-> <<>>]

FmtIdle ==
    /\ f_pc = "idle"
    /\ f_query = <<>>
    /\ f_results = <<>>
    /\ f_max_length = 0
    /\ f_return = NoReturn

FormatCall ==
    /\ f_pc = "call"
    /\ f_return' = format_query_result(f_query, f_results, f_max_length)
    /\ f_pc' = "returned"
    /\ UNCHANGED <<f_query, f_results, f_max_length, sys_vars>>

(***************************************************************************)
(* The tool.  Threads, requests, the environment and the database server.  *)
(***************************************************************************)
Threads == {"t1", "t2"}

EnvKeys == {"MYSQL_USER", "MYSQL_PASSWORD", "MYSQL_HOST", "MYSQL_DATABASE"}

\* the list passed at main.py 51-56, in its order
RequiredKeys == <<"MYSQL_USER", "MYSQL_PASSWORD", "MYSQL_HOST", "MYSQL_DATABASE">>

KeyText(k) ==
    CASE k = "MYSQL_USER" -> <<"M","Y","S","Q","L","_","U","S","E","R">>
      [] k = "MYSQL_PASSWORD" -> <<"M","Y","S","Q","L","_","P","A","S","S","W","O","R","D">>
      [] k = "MYSQL_HOST" -> <<"M","Y","S","Q","L","_","H","O","S","T">>
      [] k = "MYSQL_DATABASE" -> <<"M","Y","S","Q","L","_","D","A","T","A","B","A","S","E">>
      [] OTHER -> <<"M","Y","S","Q","L","_","P","O","R","T">>

\* the values a variable that is set may hold: empty or not
EnvValues == {<<>>, <<"v">>}

\* MYSQL_PORT when set: a number, or text int() rejects
PortValues == {<<"3", "3", "0", "6">>, <<"x">>}

Environments ==
    UNION { {e \in [S -> EnvValues \cup PortValues] :
                /\ \A k \in S \cap EnvKeys : e[k] \in EnvValues
                /\ "MYSQL_PORT" \in S => e["MYSQL_PORT"] \in PortValues}
            : S \in SUBSET (EnvKeys \cup {"MYSQL_PORT"}) }

\* the tables a query may select from; a table is named in the state and
\* Table gives its rows
NumberedRow(i) == <<Item(KeyId, IntV(i))>>

BigRow(i) == <<Item(KeyId, IntV(i)), Item(KeyA, StrV(Rep("x", 5000)))>>

TableNames == {"rows"} \X (0..MaxResult) \cup {<<"message", 1>>, <<"decimal", 1>>}

\* tables whose rendering passes DEFAULT_MAX_LENGTH
BigTableNames == {<<"big", 3>>}

Table(name) ==
    CASE name[1] = "rows" -> [i \in 1..name[2] |-> NumberedRow(i)]
      [] name[1] = "message" -> <<<<Item(MESSAGE_KEY, StrV(<<"h", "i">>))>>>>
      [] name[1] = "decimal" -> <<<<Item(KeyA, DecimalV)>>>>
      [] OTHER -> [i \in 1..name[2] |-> BigRow(i)]

Queries ==
    { <<"S","E","L","E","C","T"," ","1">>,
      <<" ","\n","i","n","s","e","r","t"," ","t">>,
      <<"U","P","D","A","T","E"," ","t">>,
      <<"D","e","l","e","t","e">>,
      <<"C","R","E","A","T","E","D">>,
      <<"\t","d","r","o","p"," ">>,
      <<"a","l","t","e","r">>,
      <<"(","U","P","D","A","T","E",")">>,
      <<"I","N","S","E","R">> }

Requests == [query : Queries, max_rows : 0..MaxCap]

\* the narrower inputs of the concurrent specification
ConcRequests ==
    [query : {<<"S","E","L","E","C","T"," ","1">>, <<"U","P","D","A","T","E"," ","t">>},
     max_rows : {1}]

ConcTables == {<<"rows", 2>>}

NoRequest == [query |-> <<>>, max_rows |-> 0]

NoException == [raised |-> FALSE, type |-> "", msg |-> <<>>]

ConnIds == 1..Cardinality(Threads)

FreshServer == [i \in ConnIds |-> [conn |-> "unused", cur |-> "none", table |-> <<"rows", 0>>,
                                   pos |-> 0, executed |-> FALSE]]

SysIdle ==
    /\ environ = <<>>
    /\ database = {}
    /\ callers = {}
    /\ req = [t \in Threads |-> NoRequest]
    /\ pc = [t \in Threads |-> "idle"]
    /\ conn = [t \in Threads |-> 0]
    /\ cursor = [t \in Threads |-> 0]
    /\ results = [t \in Threads |-> <<>>]
    /\ more_rows_exist = [t \in Threads |-> FALSE]
    /\ exc = [t \in Threads |-> NoException]
    /\ response = [t \in Threads |-> <<>>]
    /\ escaped = [t \in Threads |-> FALSE]
    /\ calls = [t \in Threads |-> <<>>]
    /\ server = FreshServer

(***************************************************************************)
(* load_env_vars and get_connection                                        *)
(***************************************************************************)
ERROR_PREFIX == <<"~", "~", "~", ":", " ">>
MISSING_ENV_HEAD == Rep("~", 15) \o <<":", " ">>
\* str(e) of the driver's errors, of int()'s ValueError and of json's TypeError
DRIVER_ERROR_TEXT == <<"m", "y", "s", "q", "l">>
INT_ERROR_TEXT == <<"i", "n", "t", "(", ")">>
TYPE_ERROR_TEXT == <<"j", "s", "o", "n">>

\* missing with a fault: only an unset variable counts, an empty one passes
missing_unset_only(keys) == SelectSeq(keys, LAMBDA k : k \notin DOMAIN environ)

\* [k for k, v in values.items() if not v]: unset (None) or empty
missing(keys) == SelectSeq(keys, LAMBDA k : k \notin DOMAIN environ \/ environ[k] = <<>>)

missing_message(keys) ==
    MISSING_ENV_HEAD \o Join([i \in 1..Len(missing(keys)) |-> KeyText(missing(keys)[i])],
                             <<",", " ">>)

\* int(os.getenv("MYSQL_PORT", DEFAULT_MYSQL_PORT)) raises on text that is no number
PortRaises ==
    /\ "MYSQL_PORT" \in DOMAIN environ
    /\ \E i \in 1..Len(environ["MYSQL_PORT"]) :
           environ["MYSQL_PORT"][i] \notin {"0","1","2","3","4","5","6","7","8","9"}

Exception(type, msg) == [raised |-> TRUE, type |-> type, msg |-> msg]

Call(op, ok, id) == [op |-> op, ok |-> ok, id |-> id]

\* where control goes when the try block of execute_query is left: the
\* finally clause closes what is set, then execute_mysql goes on
FinallyPc(cur, cn) ==
    IF cur # 0 THEN "cursor_close" ELSE IF cn # 0 THEN "conn_close" ELSE "respond"

\* a new connection object: an id no connection had before
FreshId == CHOOSE i \in ConnIds : server[i].conn = "unused" /\ \A j \in ConnIds : j < i => server[j].conn # "unused"

\* the transport calls execute_mysql on thread t
Invoke(t) ==
    /\ t \in callers
    /\ pc[t] = "idle"
    /\ pc' = [pc EXCEPT ![t] = "get_connection"]
    /\ UNCHANGED <<fmt_vars, environ, database, callers, req, conn, cursor, results, more_rows_exist,
                   exc, response, escaped, calls, server>>

\* get_connection: load_env_vars, the port, connect, conn.cursor
GetConnection(t) ==
    /\ pc[t] = "get_connection"
    /\ IF missing(RequiredKeys) # <<>>
       THEN /\ exc' = [exc EXCEPT ![t] = Exception("ValueError", missing_message(RequiredKeys))]
            /\ pc' = [pc EXCEPT ![t] = FinallyPc(0, 0)]
            /\ UNCHANGED <<conn, cursor, calls, server>>
       ELSE IF PortRaises
       THEN /\ exc' = [exc EXCEPT ![t] = Exception("ValueError", INT_ERROR_TEXT)]
            /\ pc' = [pc EXCEPT ![t] = FinallyPc(0, 0)]
            /\ UNCHANGED <<conn, cursor, calls, server>>
       ELSE \E ok \in BOOLEAN :
            IF ok
            THEN /\ server' = [server EXCEPT ![FreshId].conn = "open", ![FreshId].cur = "open"]
                 /\ conn' = [conn EXCEPT ![t] = FreshId]
                 /\ cursor' = [cursor EXCEPT ![t] = FreshId]
                 /\ calls' = [calls EXCEPT ![t] = Append(@, Call("connect", TRUE, FreshId))]
                 /\ pc' = [pc EXCEPT ![t] = "execute"]
                 /\ UNCHANGED exc
            ELSE /\ calls' = [calls EXCEPT ![t] = Append(@, Call("connect", FALSE, 0))]
                 /\ exc' = [exc EXCEPT ![t] = Exception("mysql.Error", DRIVER_ERROR_TEXT)]
                 /\ pc' = [pc EXCEPT ![t] = FinallyPc(0, 0)]
                 /\ UNCHANGED <<conn, cursor, server>>
    /\ UNCHANGED <<fmt_vars, environ, database, callers, req, results, more_rows_exist, response, escaped>>

(***************************************************************************)
(* execute_query                                                           *)
(***************************************************************************)
Keywords ==
    << <<"I","N","S","E","R","T">>, <<"U","P","D","A","T","E">>, <<"D","E","L","E","T","E">>,
       <<"C","R","E","A","T","E">>, <<"D","R","O","P">>, <<"A","L","T","E","R">> >>

\* is_mutation with a fault: the query is not stripped
is_mutation_unstripped(query) ==
    \E i \in 1..Len(Keywords) : StartsWith(Upper(query), Keywords[i])

\* any(query.strip().upper().startswith(cmd) for cmd in [...])
is_mutation(query) == \E i \in 1..Len(Keywords) : StartsWith(Upper(Strip(query)), Keywords[i])

\* a driver call on thread t failed: the error leaves the try block
Fail(t, op) ==
    /\ calls' = [calls EXCEPT ![t] = Append(@, Call(op, FALSE, cursor[t]))]
    /\ exc' = [exc EXCEPT ![t] = Exception("mysql.Error", DRIVER_ERROR_TEXT)]
    /\ pc' = [pc EXCEPT ![t] = FinallyPc(cursor[t], conn[t])]

\* cursor.execute(query): the server answers with the rows of one of its
\* tables; then the test of line 91
Execute(t) ==
    /\ pc[t] = "execute"
    /\ \E ok \in BOOLEAN :
        IF ok
        THEN /\ \E tb \in database :
                    server' = [server EXCEPT ![cursor[t]].table = tb,
                                             ![cursor[t]].pos = 0,
                                             ![cursor[t]].executed = TRUE]
             /\ calls' = [calls EXCEPT ![t] = Append(@, Call("execute", TRUE, cursor[t]))]
             /\ pc' = [pc EXCEPT ![t] = IF is_mutation(req[t].query) THEN "commit"
                                        ELSE "fetchmany"]
             /\ UNCHANGED exc
        ELSE Fail(t, "execute") /\ UNCHANGED server
    /\ UNCHANGED <<fmt_vars, environ, database, callers, req, conn, cursor, results, more_rows_exist,
                   response, escaped>>

\* conn.commit()
Commit(t) ==
    /\ pc[t] = "commit"
    /\ \E ok \in BOOLEAN :
        IF ok
        THEN /\ calls' = [calls EXCEPT ![t] = Append(@, Call("commit", TRUE, conn[t]))]
             /\ pc' = [pc EXCEPT ![t] = "fetchmany"]
             /\ UNCHANGED exc
        ELSE Fail(t, "commit")
    /\ UNCHANGED <<fmt_vars, environ, database, callers, req, conn, cursor, results, more_rows_exist,
                   response, escaped, server>>

Min(a, b) == IF a < b THEN a ELSE b

\* how many rows cursor.fetchmany(size) returns with `left` rows unread.
\* What size 0 means is the driver's choice: mysql-connector computes
\* size or self.arraysize (arraysize is 1) and so fetches one row; a driver
\* that takes 0 literally fetches none.
FetchManyCounts(size, left) ==
    IF size = 0 THEN {0, Min(1, left)} ELSE {Min(size, left)}

\* the rows the server has not yet handed to the cursor
Unread(id) == Len(Table(server[id].table)) - server[id].pos

\* results = cursor.fetchmany(size=max_rows)
FetchMany(t) ==
    /\ pc[t] = "fetchmany"
    /\ \E ok \in BOOLEAN :
        IF ok
        THEN \E n \in FetchManyCounts(req[t].max_rows, Unread(cursor[t])) :
             /\ results' = [results EXCEPT ![t] =
                    SubSeq(Table(server[cursor[t]].table), server[cursor[t]].pos + 1,
                           server[cursor[t]].pos + n)]
             /\ server' = [server EXCEPT ![cursor[t]].pos = @ + n]
             /\ calls' = [calls EXCEPT ![t] = Append(@, Call("fetchmany", TRUE, cursor[t]))]
             /\ pc' = [pc EXCEPT ![t] = "fetchone"]
             /\ UNCHANGED exc
        ELSE Fail(t, "fetchmany") /\ UNCHANGED <<results, server>>
    /\ UNCHANGED <<fmt_vars, environ, database, callers, req, conn, cursor, more_rows_exist,
                   response, escaped>>

\* FetchOne with a fault: no probe, a full batch is taken to mean more rows
FetchOneNoProbe(t) ==
    /\ pc[t] = "fetchone"
    /\ more_rows_exist' = [more_rows_exist EXCEPT ![t] = Len(results[t]) = req[t].max_rows]
    /\ calls' = [calls EXCEPT ![t] = Append(@, Call("fetchone", TRUE, cursor[t]))]
    /\ pc' = [pc EXCEPT ![t] = FinallyPc(cursor[t], conn[t])]
    /\ UNCHANGED <<fmt_vars, environ, database, callers, req, conn, cursor, results, exc,
                   response, escaped, server>>

\* more_rows_exist = cursor.fetchone() is not None; then return, through finally
FetchOne(t) ==
    /\ pc[t] = "fetchone"
    /\ \E ok \in BOOLEAN :
        IF ok
        THEN /\ more_rows_exist' = [more_rows_exist EXCEPT ![t] = Unread(cursor[t]) > 0]
             /\ server' = [server EXCEPT ![cursor[t]].pos = @ + Min(1, Unread(cursor[t]))]
             /\ calls' = [calls EXCEPT ![t] = Append(@, Call("fetchone", TRUE, cursor[t]))]
             /\ pc' = [pc EXCEPT ![t] = FinallyPc(cursor[t], conn[t])]
             /\ UNCHANGED exc
        ELSE Fail(t, "fetchone") /\ UNCHANGED <<more_rows_exist, server>>
    /\ UNCHANGED <<fmt_vars, environ, database, callers, req, conn, cursor, results, response, escaped>>

\* finally: if cursor: cursor.close().  An error here leaves the finally
\* clause at once, replacing any error in flight.
CursorClose(t) ==
    /\ pc[t] = "cursor_close"
    /\ \E ok \in BOOLEAN :
        IF ok
        THEN /\ server' = [server EXCEPT ![cursor[t]].cur = "closed"]
             /\ calls' = [calls EXCEPT ![t] = Append(@, Call("cursor.close", TRUE, cursor[t]))]
             /\ pc' = [pc EXCEPT ![t] = FinallyPc(0, conn[t])]
             /\ UNCHANGED exc
        ELSE /\ calls' = [calls EXCEPT ![t] = Append(@, Call("cursor.close", FALSE, cursor[t]))]
             /\ exc' = [exc EXCEPT ![t] = Exception("mysql.Error", DRIVER_ERROR_TEXT)]
             /\ pc' = [pc EXCEPT ![t] = "respond"]
             /\ UNCHANGED server
    /\ UNCHANGED <<fmt_vars, environ, database, callers, req, conn, cursor, results, more_rows_exist,
                   response, escaped>>

\* finally: if conn: conn.close()
ConnClose(t) ==
    /\ pc[t] = "conn_close"
    /\ server' = [server EXCEPT ![conn[t]].conn = "closed"]
    /\ calls' = [calls EXCEPT ![t] = Append(@, Call("conn.close", TRUE, conn[t]))]
    /\ pc' = [pc EXCEPT ![t] = "respond"]
    /\ UNCHANGED <<fmt_vars, environ, database, callers, req, conn, cursor, results, more_rows_exist,
                   exc, response, escaped>>

(***************************************************************************)
(* execute_mysql after execute_query ended                                 *)
(***************************************************************************)
\* Catches with a fault: except mysql.connector.Error
CatchesDriverOnly(type) == type = "mysql.Error"

\* except Exception: every error of the model is an Exception
Catches(type) == type \in {"ValueError", "mysql.Error", "TypeError"}

ErrorPayload(msg) == [kind |-> "error", text |-> ERROR_PREFIX \o msg]

\* lines 219-227: the rows, and the marker when more_rows_exist
tool_json_results(rows, more) == IF more THEN Append(rows, RowLimitMarker) ELSE rows

\* lines 215-235: execute_query raised, or it returned and the report is
\* formatted; an error of either is caught and turned into text
Respond(t) ==
    /\ pc[t] = "respond"
    /\ LET formatted == format_query_result(req[t].query,
                             tool_json_results(results[t], more_rows_exist[t]),
                             DEFAULT_MAX_LENGTH)
           error == IF exc[t].raised THEN exc[t]
                    ELSE IF formatted.raised THEN Exception("TypeError", TYPE_ERROR_TEXT)
                    ELSE NoException
       IN IF error.raised
          THEN IF Catches(error.type)
               THEN response' = [response EXCEPT ![t] = Append(@, ErrorPayload(error.msg))]
                    /\ UNCHANGED escaped
               ELSE escaped' = [escaped EXCEPT ![t] = TRUE] /\ UNCHANGED response
          ELSE /\ response' = [response EXCEPT ![t] =
                       Append(@, [kind |-> "report", text |-> formatted.text])]
               /\ UNCHANGED escaped
    /\ pc' = [pc EXCEPT ![t] = "done"]
    /\ UNCHANGED <<fmt_vars, environ, database, callers, req, conn, cursor, results, more_rows_exist,
                   exc, calls, server>>

(***************************************************************************)
(* Specifications                                                          *)
(***************************************************************************)
\* one invocation, every input
Init ==
    /\ FmtIdle
    /\ environ \in Environments
    /\ database = TableNames
    /\ callers = {"t1"}
    /\ req \in {r \in [Threads -> Requests \cup {NoRequest}] :
                    r["t1"] \in Requests /\ r["t2"] = NoRequest}
    /\ pc = [t \in Threads |-> "idle"]
    /\ conn = [t \in Threads |-> 0]
    /\ cursor = [t \in Threads |-> 0]
    /\ results = [t \in Threads |-> <<>>]
    /\ more_rows_exist = [t \in Threads |-> FALSE]
    /\ exc = [t \in Threads |-> NoException]
    /\ response = [t \in Threads |-> <<>>]
    /\ escaped = [t \in Threads |-> FALSE]
    /\ calls = [t \in Threads |-> <<>>]
    /\ server = FreshServer

FullEnvironment == [k \in EnvKeys |-> <<"v">>]

\* concurrent invocations
ConcInit ==
    /\ FmtIdle
    /\ environ \in {FullEnvironment, [k \in EnvKeys \ {"MYSQL_HOST"} |-> <<"v">>]}
    /\ database = ConcTables
    /\ callers = Threads
    /\ req \in [Threads -> ConcRequests]
    /\ pc = [t \in Threads |-> "idle"]
    /\ conn = [t \in Threads |-> 0]
    /\ cursor = [t \in Threads |-> 0]
    /\ results = [t \in Threads |-> <<>>]
    /\ more_rows_exist = [t \in Threads |-> FALSE]
    /\ exc = [t \in Threads |-> NoException]
    /\ response = [t \in Threads |-> <<>>]
    /\ escaped = [t \in Threads |-> FALSE]
    /\ calls = [t \in Threads |-> <<>>]
    /\ server = FreshServer

\* one invocation whose query selects a large table
ReportRequests ==
    [query : {<<"S","E","L","E","C","T"," ","1">>, <<"U","P","D","A","T","E"," ","t">>},
     max_rows : 1..MaxCap]

ReportInit ==
    /\ FmtIdle
    /\ environ = FullEnvironment
    /\ database = BigTableNames \cup {<<"rows", MaxResult>>, <<"message", 1>>}
    /\ callers = {"t1"}
    /\ req \in {r \in [Threads -> ReportRequests \cup {NoRequest}] :
                    r["t1"] \in ReportRequests /\ r["t2"] = NoRequest}
    /\ pc = [t \in Threads |-> "idle"]
    /\ conn = [t \in Threads |-> 0]
    /\ cursor = [t \in Threads |-> 0]
    /\ results = [t \in Threads |-> <<>>]
    /\ more_rows_exist = [t \in Threads |-> FALSE]
    /\ exc = [t \in Threads |-> NoException]
    /\ response = [t \in Threads |-> <<>>]
    /\ escaped = [t \in Threads |-> FALSE]
    /\ calls = [t \in Threads |-> <<>>]
    /\ server = FreshServer

\* format_query_result alone
FmtInit ==
    /\ SysIdle
    /\ f_pc = "call"
    /\ f_query \in FmtQueries
    /\ f_results \in FmtResults
    /\ f_max_length \in FmtMaxLengths
    /\ f_return = NoReturn

Next ==
    \E t \in Threads :
        \/ Invoke(t)
        \/ GetConnection(t)
        \/ Execute(t)
        \/ Commit(t)
        \/ FetchMany(t)
        \/ FetchOne(t)
        \/ CursorClose(t)
        \/ ConnClose(t)
        \/ Respond(t)

Spec == Init /\ [][Next]_vars

SpecReport == ReportInit /\ [][Next]_vars

SpecConc == ConcInit /\ [][Next]_vars

SpecFormat == FmtInit /\ [][FormatCall]_vars

(***************************************************************************)
(* Properties                                                              *)
(***************************************************************************)
\* pat occurs in s
Contains(s, pat) ==
    \E i \in 1..(Len(s) - Len(pat) + 1) :
        s[i] = pat[1] /\ SubSeq(s, i, i + Len(pat) - 1) = pat

EndsWith(s, t) == Len(s) >= Len(t) /\ SubSeq(s, Len(s) - Len(t) + 1, Len(s)) = t

RECURSIVE Scan(_, _, _, _)
\* the brackets and braces of s[i..] outside string literals close the ones
\* open in stack, in order, and no string literal is left open
Scan(s, i, stack, mode) ==
    IF i > Len(s) THEN stack = <<>> /\ mode = "out"
    ELSE IF mode = "esc" THEN Scan(s, i + 1, stack, "str")
    ELSE IF mode = "str"
    THEN Scan(s, i + 1, stack, IF s[i] = "\\" THEN "esc" ELSE IF s[i] = "\"" THEN "out" ELSE "str")
    ELSE IF s[i] = "\"" THEN Scan(s, i + 1, stack, "str")
    ELSE IF s[i] \in {"[", "{"} THEN Scan(s, i + 1, <<s[i]>> \o stack, "out")
    ELSE IF s[i] \in {"]", "}"}
    THEN /\ stack # <<>>
         /\ Head(stack) = (IF s[i] = "]" THEN "[" ELSE "{")
         /\ Scan(s, i + 1, Tail(stack), "out")
    ELSE Scan(s, i + 1, stack, "out")

JsonBalanced(s) == Scan(s, 1, <<>>, "out")

\* the rendering of the first k objects of a list: "[", the objects, no "]"
RowBoundary(objects, k) ==
    LET whole == JsonDumps(SubSeq(objects, 1, k))
    IN SubSeq(whole, 1, Len(whole) - 2)

\* the part of a report between its header and its footer
ReportBody(text, query, rows) ==
    SubSeq(text, Len(output_prefix(query)) + 1, Len(text) - Len(count_info(rows)))

\* C1: for every query, every non-empty list of rows and every max_length
\* the text format_query_result returns is no longer than max_length.
C1_LengthBounded ==
    (f_pc = "returned" /\ f_results # <<>> /\ ~f_return.raised)
        => Len(f_return.text) <= f_max_length

\* C2: on the character-truncation branch the body between header and
\* footer is a well-formed array: the kept fragment ends at the closing brace
\* of a complete row object, the character-limit marker follows it, and
\* brackets and braces balance.
C2_TruncatedBodyWellFormed ==
    (f_pc = "returned" /\ TruncationBranch(f_query, f_results, f_max_length))
        => LET body == ReportBody(f_return.text, f_query, f_results)
               kept == SubSeq(body, 1, Len(body) - Len(CHAR_LIMIT_TAIL))
           IN /\ EndsWith(body, CHAR_LIMIT_TAIL)
              /\ \E k \in 1..Len(json_results(f_results)) :
                     kept = RowBoundary(json_results(f_results), k)
              /\ JsonBalanced(body)

\* execute_query returned on thread t (it did not raise)
Returned(t) == pc[t] \in {"respond", "done"} /\ ~exc[t].raised

\* the rows the query of thread t selects
TrueResult(t) == Table(server[cursor[t]].table)

CallIndices(t, op) == {i \in 1..Len(calls[t]) : calls[t][i].op = op}

\* the batch is the first min(N, R) rows and the flag says R > N
BatchIsPrefix(t) ==
    /\ results[t] = SubSeq(TrueResult(t), 1, Min(req[t].max_rows, Len(TrueResult(t))))
    /\ more_rows_exist[t] = (Len(TrueResult(t)) > req[t].max_rows)

ClaimedMutating(q) ==
    LET u == Upper(Strip(q))
    IN \E w \in { <<"I","N","S","E","R","T">>, <<"U","P","D","A","T","E">>,
                  <<"D","E","L","E","T","E">>, <<"C","R","E","A","T","E">>,
                  <<"D","R","O","P">>, <<"A","L","T","E","R">> } : StartsWith(u, w)

\* C4: commit is invoked exactly once if the trimmed, upper-cased query
\* starts with INSERT, UPDATE, DELETE, CREATE, DROP or ALTER and execute
\* succeeded, directly after execute and before any fetch; otherwise never.
C4_CommitOnlyForMutations ==
    \A t \in Threads :
        LET cs == calls[t]
            commits == CallIndices(t, "commit")
            executed == \E i \in CallIndices(t, "execute") : cs[i].ok
        IN /\ Cardinality(commits) <= 1
           /\ \A i \in commits :
                 /\ ClaimedMutating(req[t].query)
                 /\ i > 1 /\ cs[i - 1].op = "execute" /\ cs[i - 1].ok
                 /\ \A j \in 1..(i - 1) : cs[j].op \notin {"fetchmany", "fetchone"}
           /\ (ClaimedMutating(req[t].query) /\ executed /\ pc[t] # "commit")
                 => commits # {}

C4_Witness ==
    \E t \in Threads :
        /\ pc[t] = "done"
        /\ req[t].query = <<" ","\n","i","n","s","e","r","t"," ","t">>
        /\ Cardinality(CallIndices(t, "commit")) = 1
        /\ \E i \in CallIndices(t, "fetchmany") : calls[t][i].ok

\* C5: on every exit path of execute_query after the connection was
\* acquired the cursor is closed and then the connection is closed, each
\* exactly once, and no connection remains open.
C5_BothClosedOnEveryExit ==
    \A t \in Threads :
        (pc[t] \in {"respond", "done"} /\ conn[t] # 0)
            => /\ Cardinality(CallIndices(t, "cursor.close")) = 1
               /\ Cardinality(CallIndices(t, "conn.close")) = 1
               /\ \A i \in CallIndices(t, "cursor.close") :
                      \A j \in CallIndices(t, "conn.close") : i < j
               /\ server[conn[t]].cur = "closed"
               /\ server[conn[t]].conn = "closed"

\* the rendering of the row-cap marker object in a report
RowMarkerText == JsonObject(RowLimitMarker)

\* the report execute_mysql returned on thread t, if it returned one
HasReport(t) == pc[t] = "done" /\ Len(response[t]) = 1 /\ response[t][1].kind = "report"

\* C6: whenever the executor reports more_rows_exist and a non-empty batch,
\* the report of execute_mysql contains the row-cap marker object, also
\* when the character-truncation branch is taken.
C6_RowCapMarkerRendered ==
    \A t \in Threads :
        (HasReport(t) /\ Returned(t) /\ more_rows_exist[t] /\ results[t] # <<>>)
            => Contains(response[t][1].text, RowMarkerText)

\* C7: the count footer reports the number of data rows of the batch the
\* executor returned (here for a row cap of at least 1), and the report
\* shows the row-cap marker only if the executor's more_rows_exist was true.
C7_FooterCountsBatch ==
    \A t \in Threads :
        (HasReport(t) /\ Returned(t) /\ results[t] # <<>> /\ req[t].max_rows >= 1)
            => /\ EndsWith(response[t][1].text,
                           COUNT_HEAD \o Digits(Len(results[t])) \o COUNT_TAIL)
               /\ Contains(response[t][1].text, RowMarkerText) => more_rows_exist[t]

\* the required variables that are unset or empty
ClaimedMissing == {k \in EnvKeys : k \notin DOMAIN environ \/ environ[k] = <<>>}

RECURSIVE SumLen(_)
SumLen(S) == IF S = {} THEN 0
             ELSE LET k == CHOOSE x \in S : TRUE IN Len(KeyText(k)) + SumLen(S \ {k})

\* msg is the head and the names of exactly the missing variables
NamesExactlyMissing(msg) ==
    /\ StartsWith(msg, MISSING_ENV_HEAD)
    /\ \A k \in EnvKeys \cup {"MYSQL_PORT"} : Contains(msg, KeyText(k)) <=> k \in ClaimedMissing
    /\ Len(msg) = Len(MISSING_ENV_HEAD) + SumLen(ClaimedMissing)
                  + 2 * (Cardinality(ClaimedMissing) - 1)

\* C8: if a required variable is unset or empty, get_connection fails with
\* a configuration error naming exactly the missing variables, and no
\* connection attempt is made in that request.
C8_MissingVariablesNamed ==
    \A t \in Threads :
        ClaimedMissing # {}
            => /\ CallIndices(t, "connect") = {}
               /\ conn[t] = 0
               /\ pc[t] \in {"idle", "get_connection", "respond", "done"}
               /\ pc[t] \in {"respond", "done"}
                     => /\ exc[t].raised
                        /\ exc[t].type = "ValueError"
                        /\ NamesExactlyMissing(exc[t].msg)
               /\ pc[t] = "done"
                     => response[t] = <<[kind |-> "error", text |-> ERROR_PREFIX \o exc[t].msg]>>

C8_Witness ==
    \E t \in Threads :
        /\ pc[t] = "done"
        /\ "MYSQL_HOST" \notin DOMAIN environ
        /\ "MYSQL_USER" \in DOMAIN environ /\ environ["MYSQL_USER"] = <<>>
        /\ ClaimedMissing = {"MYSQL_HOST", "MYSQL_USER"}
        /\ Len(response[t]) = 1
        /\ response[t][1].kind = "error"

\* json.dumps cannot serialise a value of the batch
BatchUnserialisable(t) ==
    \E i \in 1..Len(results[t]) :
        \E j \in 1..Len(results[t][i]) : results[t][i][j].v.t = "decimal"

\* C9: every invocation of execute_mysql ends by returning exactly one
\* text payload, the report on success and an error-prefixed text when
\* configuration, connection, execute, commit, fetch or formatting fails;
\* no error escapes, and connect and execute are attempted at most once.
C9_OnePayloadNoEscape ==
    \A t \in Threads :
        /\ ~escaped[t]
        /\ Cardinality(CallIndices(t, "connect")) <= 1
        /\ Cardinality(CallIndices(t, "execute")) <= 1
        /\ pc[t] # "done" => response[t] = <<>>
        /\ pc[t] = "done"
              => /\ Len(response[t]) = 1
                 /\ IF exc[t].raised \/ BatchUnserialisable(t)
                    THEN /\ response[t][1].kind = "error"
                         /\ StartsWith(response[t][1].text, ERROR_PREFIX)
                    ELSE /\ response[t][1].kind = "report"
                         /\ StartsWith(response[t][1].text, output_prefix(req[t].query))

C9_Witness ==
    \E t \in Threads :
        /\ pc[t] = "done"
        /\ \E i \in CallIndices(t, "fetchone") : ~calls[t][i].ok
        /\ response[t] = <<[kind |-> "error", text |-> ERROR_PREFIX \o DRIVER_ERROR_TEXT]>>

\* C10: under any interleaving of concurrent invocations each one opens its
\* own connection and cursor, fetches from and closes only its own, its
\* batch and flag depend on no other invocation, and when all invocations
\* have ended no connection is open.
C10_IsolatedAndAllClosed ==
    /\ \A t \in Threads : \A u \in Threads \ {t} :
           conn[t] # 0 => (conn[t] # conn[u] /\ cursor[t] # cursor[u])
    /\ \A t \in Threads : \A i \in 1..Len(calls[t]) : calls[t][i].id \in {0, conn[t]}
    /\ \A t \in Threads : (Returned(t) /\ req[t].max_rows >= 1) => BatchIsPrefix(t)
    /\ (\A t \in Threads : pc[t] = "done") => \A i \in ConnIds : server[i].conn # "open"

=============================================================================
